---------------------------- MODULE Spec2Model ----------------------------
(***************************************************************************)
(* A model of the myfin-api service layer: userService (login, password    *)
(* change) and categoryService (category deletion, per-budget category     *)
(* listing, time-windowed amount aggregation).                             *)
(*                                                                         *)
(* The groups of operations are checked under their own specifications     *)
(* over the same variables:                                                *)
(*   SpecUser  users table, session keys, login / password change          *)
(*   SpecCat   categories and budgets_has_categories, per-budget listing   *)
(*   SpecDel   the same tables, deleteCategory's transaction step by step  *)
(*   SpecAgg   transactions and accounts tables, amount aggregation        *)
(***************************************************************************)
EXTENDS Integers, Sequences, FiniteSets, TLC

VARIABLES
    users,          \* users table: user_id -> row
    nextUserId,     \* AUTO_INCREMENT of users.user_id
    keyCount,       \* number of session keys generated so far
    userResp,       \* outcome of the last userService call
    prevChange,     \* the call before it, when that was a successful changeUserPassword
    categories,     \* categories table: category_id -> row
    nextCategoryId, \* AUTO_INCREMENT of categories.category_id
    bhc,            \* budgets_has_categories table: set of rows
    tx,             \* the $transaction of a deleteCategory call in progress
    catResp,        \* outcome of the last categoryService call
    transactions,   \* transactions table: set of rows
    accounts,       \* accounts table: account_id -> row
    aggResp         \* outcome of the last aggregation query

userVars == <<users, nextUserId, keyCount, userResp, prevChange>>
catVars  == <<categories, nextCategoryId, bhc, tx, catResp>>
aggVars  == <<transactions, aggResp>>
vars     == <<users, nextUserId, keyCount, userResp, prevChange, categories, nextCategoryId,
              bhc, tx, catResp, transactions, accounts, aggResp>>

\* A nullable SQL value is the set of its values: NULL is the empty set.
NULL == {}

NotNull(v) == {v}

coalesce(n, default) == IF n = NULL THEN default ELSE CHOOSE v \in n : TRUE

(***************************************************************************)
(* Bounds of the model.                                                    *)
(***************************************************************************)
MaxUsers == 2
MaxKeys == 2
MaxCategories == 2
MaxRefs == 2
MaxTransactions == 2

Usernames == {"ana", "rui"}
Passwords == {1, 2}      \* password strings, by code
Salts == {1, 2}

(***************************************************************************)
(* utils/CryptoUtils: a salted one-way hash.  The digest is a function of  *)
(* salt and password that differs for different passwords under the same   *)
(* salt; verifyPassword recomputes it with the stored salt.                *)
(***************************************************************************)
Digest(salt, password) == salt * 10 + password

hashPasswordWith(salt, password) == [salt |-> salt, digest |-> Digest(salt, password)]

verifyPassword(password, hash) == Digest(hash.salt, password) = hash.digest

(***************************************************************************)
(* utils/convertUtils: an integer amount of cents as units and cents.      *)
(***************************************************************************)
convertBigIntegerToFloat(cents) == [units |-> cents \div 100, cents |-> cents % 100]

(***************************************************************************)
(* The accounts table.  Rows are created by accountService; here two       *)
(* accounts of user 1 and one of user 2 exist from the start.              *)
(***************************************************************************)
AccountIds == {1, 2, 3}

InitAccounts ==
    [a \in AccountIds |->
        [account_id |-> a,
         users_user_id |-> IF a = 3 THEN 2 ELSE 1,
         current_balance |-> a * 1050,
         exclude_from_budgets |-> FALSE]]

getAccountsForUser(userId) == {accounts[a] : a \in {x \in AccountIds : accounts[x].users_user_id = userId}}

(***************************************************************************)
(* userService                                                             *)
(***************************************************************************)
ChangedOk(resp) == resp.op = "changeUserPassword" /\ resp.ok

\* What every userService call leaves alone, and the record of the call
\* before it.
UserFrame ==
    /\ prevChange' = (IF ChangedOk(userResp) THEN userResp ELSE [op |-> "other"])
    /\ UNCHANGED <<categories, nextCategoryId, bhc, tx, catResp, transactions, accounts, aggResp>>

UserByUsername(username) == {u \in DOMAIN users : users[u].username = username}

notAuthorized(op, message) == [op |-> op, ok |-> FALSE, error |-> "notAuthorized", message |-> message]

\* SessionManager.generateNewSessionKeyForUser: a fresh key, stored in the
\* user's row (sessionkey, or sessionkey_mobile for a mobile login).
generateNewSessionKeyForUser(tbl, userId, mobile) ==
    IF mobile
    THEN [tbl EXCEPT ![userId].sessionkey_mobile = keyCount + 1]
    ELSE [tbl EXCEPT ![userId].sessionkey = keyCount + 1]

createUserOk(username, password) ==
    /\ nextUserId <= MaxUsers
    /\ UserByUsername(username) = {}
    /\ \E salt \in Salts :
         users' = [u \in DOMAIN users \cup {nextUserId} |->
                     IF u = nextUserId
                     THEN [user_id |-> nextUserId, username |-> username,
                           password |-> hashPasswordWith(salt, password),
                           sessionkey |-> 0, sessionkey_mobile |-> 0]
                     ELSE users[u]]
    /\ nextUserId' = nextUserId + 1
    /\ userResp' = [op |-> "createUser", ok |-> TRUE]
    /\ UNCHANGED keyCount
    /\ UserFrame

\* users.username is unique: User.create rejects a second row with it.
createUserDuplicate(username, password) ==
    /\ UserByUsername(username) # {}
    /\ userResp' = [op |-> "createUser", ok |-> FALSE]
    /\ UNCHANGED <<users, nextUserId, keyCount>>
    /\ UserFrame

createUser(username, password) ==
    \/ createUserOk(username, password)
    \/ createUserDuplicate(username, password)

attemptLoginResponse(data, userAccounts) ==
    [op |-> "attemptLogin", ok |-> TRUE,
     user_id |-> data.user_id, username |-> data.username,
     sessionkey |-> data.sessionkey, sessionkey_mobile |-> data.sessionkey_mobile,
     accounts |-> {[account_id |-> a.account_id,
                    balance |-> convertBigIntegerToFloat(a.current_balance)] : a \in userAccounts}]

attemptLoginFail(username, password, mobile, message) ==
    /\ userResp' = notAuthorized("attemptLogin", message)
                      @@ [username |-> username, password |-> password,
                          accountsFetched |-> FALSE, accounts |-> {}]
    /\ UNCHANGED <<users, nextUserId, keyCount>>
    /\ UserFrame

attemptLoginSuccess(username, password, mobile, u) ==
    /\ keyCount < MaxKeys
    /\ users' = generateNewSessionKeyForUser(users, u, mobile)
    /\ keyCount' = keyCount + 1
    /\ userResp' = attemptLoginResponse(users'[u], getAccountsForUser(users[u].user_id))
                      @@ [password |-> password, accountsFetched |-> TRUE]
    /\ UNCHANGED nextUserId
    /\ UserFrame

\* A plausible slip: the session key is generated before the password is
\* verified.
attemptLoginKeyFirst(username, password, mobile) ==
    \/ /\ UserByUsername(username) = {}
       /\ attemptLoginFail(username, password, mobile, "User Not Found")
    \/ \E u \in UserByUsername(username) :
         \/ /\ verifyPassword(password, users[u].password)
            /\ attemptLoginSuccess(username, password, mobile, u)
         \/ /\ ~verifyPassword(password, users[u].password)
            /\ keyCount < MaxKeys
            /\ users' = generateNewSessionKeyForUser(users, u, mobile)
            /\ keyCount' = keyCount + 1
            /\ userResp' = notAuthorized("attemptLogin", "Wrong Credentials")
                              @@ [username |-> username, password |-> password,
                                  accountsFetched |-> FALSE, accounts |-> {}]
            /\ UNCHANGED nextUserId
            /\ UserFrame

attemptLogin(username, password, mobile) ==
    \/ /\ UserByUsername(username) = {}
       /\ attemptLoginFail(username, password, mobile, "User Not Found")
    \/ \E u \in UserByUsername(username) :
         \/ /\ verifyPassword(password, users[u].password)
            /\ attemptLoginSuccess(username, password, mobile, u)
         \/ /\ ~verifyPassword(password, users[u].password)
            /\ attemptLoginFail(username, password, mobile, "Wrong Credentials")

changeUserPasswordFail(userId, currentPassword, newPassword, mobile, message) ==
    /\ userResp' = notAuthorized("changeUserPassword", message)
                      @@ [userId |-> userId, currentPassword |-> currentPassword,
                          newPassword |-> newPassword, mobile |-> mobile]
    /\ UNCHANGED <<users, nextUserId, keyCount>>
    /\ UserFrame

changeUserPasswordUpdate(userId, currentPassword, newPassword, mobile, stored) ==
    /\ keyCount < MaxKeys
    /\ \E salt \in Salts :
         users' = generateNewSessionKeyForUser(
                      [users EXCEPT ![userId].password = hashPasswordWith(salt, stored)],
                      userId, mobile)
    /\ keyCount' = keyCount + 1
    /\ userResp' = [op |-> "changeUserPassword", ok |-> TRUE, userId |-> userId,
                     currentPassword |-> currentPassword, newPassword |-> newPassword,
                     mobile |-> mobile]
    /\ UNCHANGED nextUserId
    /\ UserFrame

\* A plausible slip: the current password is not checked.
changeUserPasswordUnchecked(userId, currentPassword, newPassword, mobile) ==
    \/ /\ userId \notin DOMAIN users
       /\ changeUserPasswordFail(userId, currentPassword, newPassword, mobile, "User Not Found")
    \/ /\ userId \in DOMAIN users
       /\ changeUserPasswordUpdate(userId, currentPassword, newPassword, mobile, newPassword)

\* A plausible slip: the hash of the current password is stored.
changeUserPasswordWrongHash(userId, currentPassword, newPassword, mobile) ==
    \/ /\ userId \notin DOMAIN users
       /\ changeUserPasswordFail(userId, currentPassword, newPassword, mobile, "User Not Found")
    \/ /\ userId \in DOMAIN users
       /\ ~verifyPassword(currentPassword, users[userId].password)
       /\ changeUserPasswordFail(userId, currentPassword, newPassword, mobile, "Wrong credentials")
    \/ /\ userId \in DOMAIN users
       /\ verifyPassword(currentPassword, users[userId].password)
       /\ changeUserPasswordUpdate(userId, currentPassword, newPassword, mobile, currentPassword)

changeUserPassword(userId, currentPassword, newPassword, mobile) ==
    \/ /\ userId \notin DOMAIN users
       /\ changeUserPasswordFail(userId, currentPassword, newPassword, mobile, "User Not Found")
    \/ /\ userId \in DOMAIN users
       /\ ~verifyPassword(currentPassword, users[userId].password)
       /\ changeUserPasswordFail(userId, currentPassword, newPassword, mobile, "Wrong credentials")
    \/ /\ userId \in DOMAIN users
       /\ verifyPassword(currentPassword, users[userId].password)
       /\ changeUserPasswordUpdate(userId, currentPassword, newPassword, mobile, newPassword)

UserIds == 1 .. MaxUsers


CreateUser == \E n \in Usernames, p \in Passwords : createUser(n, p)

AttemptLogin == \E n \in Usernames, p \in Passwords, m \in BOOLEAN : attemptLogin(n, p, m)

ChangeUserPassword ==
    \E u \in UserIds, c \in Passwords, n \in Passwords, m \in BOOLEAN :
        changeUserPassword(u, c, n, m)

NextUser ==
    \/ CreateUser
    \/ AttemptLogin
    \/ ChangeUserPassword

Init ==
    /\ users = <<>>
    /\ nextUserId = 1
    /\ keyCount = 0
    /\ userResp = [op |-> "none"]
    /\ prevChange = [op |-> "other"]
    /\ categories = <<>>
    /\ nextCategoryId = 1
    /\ bhc = {}
    /\ tx = [pc |-> "idle"]
    /\ catResp = [op |-> "none"]
    /\ transactions = {}
    /\ accounts = InitAccounts
    /\ aggResp = [op |-> "none"]

SpecUser == Init /\ [][NextUser]_vars

(***************************************************************************)
(* Claims about userService.                                               *)
(***************************************************************************)
NoLoginEffect == users' = users /\ keyCount' = keyCount

\* C1: attemptLogin generates a new session key only when a user with the
\* username exists and the password verifies against the stored hash; an
\* unknown username fails with notAuthorized 'User Not Found', a wrong
\* password with notAuthorized 'Wrong Credentials', and in both failure
\* cases no session key is generated and no accounts are fetched or returned.
C1_LoginNeedsValidCredentials ==
    [][userResp'.op = "attemptLogin" =>
         LET found == UserByUsername(userResp'.username)
             valid == \E u \in found : verifyPassword(userResp'.password, users[u].password)
         IN  /\ ~NoLoginEffect => valid
             /\ found = {} =>
                   /\ ~userResp'.ok /\ userResp'.error = "notAuthorized"
                   /\ userResp'.message = "User Not Found"
                   /\ NoLoginEffect
                   /\ ~userResp'.accountsFetched /\ userResp'.accounts = {}
             /\ (found # {} /\ ~valid) =>
                   /\ ~userResp'.ok /\ userResp'.error = "notAuthorized"
                   /\ userResp'.message = "Wrong Credentials"
                   /\ NoLoginEffect
                   /\ ~userResp'.accountsFetched /\ userResp'.accounts = {}
             /\ valid => userResp'.ok /\ keyCount' = keyCount + 1
    ]_vars

\* A login with a wrong password was rejected after an earlier login had
\* generated a key and returned accounts.
C1_Witness ==
    /\ userResp.op = "attemptLogin" /\ ~userResp.ok
    /\ userResp.message = "Wrong Credentials"
    /\ keyCount = 1
    /\ \E u \in DOMAIN users : users[u].sessionkey = 1

\* C2: changeUserPassword with a currentPassword that does not verify
\* against the stored hash, or with a userId that does not exist, fails with
\* notAuthorized, leaves the stored password unchanged and generates no new
\* session key.
C2_RejectedChangeHasNoEffect ==
    [][userResp'.op = "changeUserPassword" =>
         LET u == userResp'.userId
             invalid == \/ u \notin DOMAIN users
                        \/ ~verifyPassword(userResp'.currentPassword, users[u].password)
         IN  invalid => /\ ~userResp'.ok /\ userResp'.error = "notAuthorized"
                        /\ users' = users
                        /\ keyCount' = keyCount
    ]_vars

\* A password change with a wrong current password was rejected for an
\* existing user.
C2_Witness ==
    /\ userResp.op = "changeUserPassword" /\ ~userResp.ok
    /\ userResp.userId \in DOMAIN users
    /\ userResp.message = "Wrong credentials"

\* C3: after a successful changeUserPassword the stored password is the hash
\* of newPassword: a following attemptLogin with newPassword succeeds, one
\* with the old password (when different) fails with 'Wrong Credentials';
\* and the user holds a session key generated by the call.
C3_ChangedPasswordTakesEffect ==
    /\ ChangedOk(userResp) =>
         LET u == userResp.userId
         IN  /\ \E salt \in Salts :
                   users[u].password = hashPasswordWith(salt, userResp.newPassword)
             /\ keyCount >= 1
             /\ keyCount = (IF userResp.mobile THEN users[u].sessionkey_mobile
                                               ELSE users[u].sessionkey)
    /\ (/\ ChangedOk(prevChange)
        /\ userResp.op = "attemptLogin"
        /\ userResp.username = users[prevChange.userId].username) =>
         /\ userResp.password = prevChange.newPassword => userResp.ok
         /\ (/\ userResp.password = prevChange.currentPassword
             /\ prevChange.currentPassword # prevChange.newPassword) =>
               ~userResp.ok /\ userResp.message = "Wrong Credentials"

\* The old password was refused at the login that followed a change to a
\* different password.
C3_Witness ==
    /\ ChangedOk(prevChange)
    /\ prevChange.currentPassword # prevChange.newPassword
    /\ userResp.op = "attemptLogin"
    /\ userResp.username = users[prevChange.userId].username
    /\ userResp.password = prevChange.currentPassword
    /\ ~userResp.ok

\* The new password was accepted at the login that followed a change.
C3_WitnessNew ==
    /\ ChangedOk(prevChange)
    /\ userResp.op = "attemptLogin"
    /\ userResp.username = users[prevChange.userId].username
    /\ userResp.password = prevChange.newPassword
    /\ userResp.ok

(***************************************************************************)
(* categoryService: categories and budgets_has_categories                  *)
(***************************************************************************)
ACTIVE == "Ativa"
INACTIVE == "Inativa"

CatUserIds == {1, 2}
BudgetIds == {1, 2}
CategoryIds == 1 .. MaxCategories

\* planned_amount_credit, planned_amount_debit, current_amount of the rows
\* added to a budget
AmountsOfBudget(budgetId) == IF budgetId = 1 THEN <<12345, 250, 99>> ELSE <<0, 5000, 0>>

catNone == [op |-> "none"]

\* What every categoryService call on these two tables leaves alone.
CatFrame == UNCHANGED <<userVars, aggVars, accounts>>

createCategory(userId, status) ==
    /\ nextCategoryId <= MaxCategories
    /\ categories' = [c \in DOMAIN categories \cup {nextCategoryId} |->
                        IF c = nextCategoryId
                        THEN [category_id |-> nextCategoryId, users_user_id |-> userId,
                              status |-> status]
                        ELSE categories[c]]
    /\ nextCategoryId' = nextCategoryId + 1
    /\ catResp' = catNone
    /\ UNCHANGED <<bhc, tx>>
    /\ CatFrame

CategoryRowExists(tbl, userId, categoryId) ==
    categoryId \in DOMAIN tbl /\ tbl[categoryId].users_user_id = userId

RefsOf(tbl, userId, categoryId) ==
    {r \in tbl : r.categories_category_id = categoryId /\ r.budgets_users_user_id = userId}

\* Rows a deleteCategory transaction in progress has locked.
LockedCategory(categoryId) == tx.pc = "catDeleted" /\ tx.categoryId = categoryId

LockedRefs(userId, categoryId) ==
    tx.pc \in {"refsDeleted", "catDeleted"} /\ tx.userId = userId /\ tx.categoryId = categoryId

updateCategory(userId, categoryId, status) ==
    /\ CategoryRowExists(categories, userId, categoryId)
    /\ ~LockedCategory(categoryId)
    /\ categories[categoryId].status # status
    /\ categories' = [categories EXCEPT ![categoryId].status = status]
    /\ catResp' = catNone
    /\ UNCHANGED <<nextCategoryId, bhc, tx>>
    /\ CatFrame

\* budgetService links a category to a budget.  The table's primary key is
\* (budgets_budget_id, budgets_users_user_id, categories_category_id).
addBudgetCategory(userId, budgetId, categoryId, amounts) ==
    /\ Cardinality(bhc) < MaxRefs
    /\ categoryId \in DOMAIN categories
    /\ ~LockedRefs(userId, categoryId)
    /\ ~\E r \in bhc : /\ r.budgets_budget_id = budgetId
                        /\ r.budgets_users_user_id = userId
                        /\ r.categories_category_id = categoryId
    /\ bhc' = bhc \cup {[budgets_budget_id |-> budgetId,
                          budgets_users_user_id |-> userId,
                          categories_category_id |-> categoryId,
                          planned_amount_credit |-> amounts[1],
                          planned_amount_debit |-> amounts[2],
                          current_amount |-> amounts[3]]}
    /\ catResp' = catNone
    /\ UNCHANGED <<categories, nextCategoryId, tx>>
    /\ CatFrame

\* truncate(coalesce(x, 0) / 100, 2): cents as a decimal with two places.
truncateCents(x) ==
    LET v == coalesce(x, 0)
    IN  [units |-> v \div 100, cents |-> v % 100]

\* The derived table b of the query.
BudgetRows(userId, budgetId) ==
    {r \in bhc : r.budgets_users_user_id = userId /\ r.budgets_budget_id = budgetId}

\* b RIGHT JOIN categories ON categories.category_id = b.categories_category_id:
\* every category, once per matching row of b, or once with NULLs.
RightJoin(b) ==
    UNION {LET m == {r \in b : r.categories_category_id = c}
           IN  IF m = {} THEN {<<c, NULL>>} ELSE {<<c, NotNull(r)>> : r \in m}
           : c \in DOMAIN categories}

\* A plausible slip: the status is not filtered.
WhereOfUser(joined, userId) ==
    {j \in joined : categories[j[1]].users_user_id = userId}

WhereActiveOfUser(joined, userId) ==
    {j \in joined : /\ categories[j[1]].users_user_id = userId
                    /\ categories[j[1]].status = ACTIVE}

SelectRow(j) ==
    LET cat == categories[j[1]]
        b == j[2]
    IN  [users_user_id |-> cat.users_user_id,
         category_id |-> cat.category_id,
         status |-> cat.status,
         budgets_budget_id |-> {r.budgets_budget_id : r \in b},
         planned_amount_credit |-> truncateCents({r.planned_amount_credit : r \in b}),
         planned_amount_debit |-> truncateCents({r.planned_amount_debit : r \in b}),
         current_amount |-> truncateCents({r.current_amount : r \in b})]

\* The result set: each selected row with the number of times it occurs.
getAllCategoriesForBudget(userId, budgetId) ==
    LET joined == WhereActiveOfUser(RightJoin(BudgetRows(userId, budgetId)), userId)
        rows == {SelectRow(j) : j \in joined}
    IN  [r \in rows |-> Cardinality({j \in joined : SelectRow(j) = r})]

GetAllCategoriesForBudget ==
    \E u \in CatUserIds, b \in BudgetIds :
        /\ catResp' = [op |-> "getAllCategoriesForBudget", userId |-> u, budgetId |-> b,
                       rows |-> getAllCategoriesForBudget(u, b)]
        /\ UNCHANGED <<categories, nextCategoryId, bhc, tx>>
        /\ CatFrame

CreateCategory == \E u \in CatUserIds, st \in {ACTIVE, INACTIVE} : createCategory(u, st)

UpdateCategory ==
    \E u \in CatUserIds, c \in CategoryIds, st \in {ACTIVE, INACTIVE} : updateCategory(u, c, st)

AddBudgetCategory ==
    \E u \in CatUserIds, b \in BudgetIds, c \in CategoryIds :
        addBudgetCategory(u, b, c, AmountsOfBudget(b))

NextCat ==
    \/ CreateCategory
    \/ UpdateCategory
    \/ AddBudgetCategory
    \/ GetAllCategoriesForBudget

SpecCat == Init /\ [][NextCat]_vars

\* Times the result holds a row of category c.
RowCount(rows, c) ==
    LET RECURSIVE Sum(_)
        Sum(S) == IF S = {} THEN 0
                  ELSE LET r == CHOOSE x \in S : TRUE
                       IN  rows[r] + Sum(S \ {r})
    IN  Sum({r \in DOMAIN rows : r.category_id = c})

Cents(d) == d.units * 100 + d.cents

\* C5: getAllCategoriesForBudget(userId, budgetId) returns exactly the ACTIVE
\* categories of userId, each exactly once; a category with a
\* budgets_has_categories row for (userId, budgetId) carries that row's
\* planned and current amounts, one without such a row carries 0 for all
\* three; no inactive category and no category of another user is returned.
C5_ActiveCategoriesOfUserOnce ==
    catResp.op = "getAllCategoriesForBudget" =>
        LET u == catResp.userId
            b == catResp.budgetId
            rows == catResp.rows
        IN  /\ \A r \in DOMAIN rows : r.category_id \in DOMAIN categories
            /\ \A c \in DOMAIN categories :
                  IF categories[c].users_user_id = u /\ categories[c].status = ACTIVE
                  THEN RowCount(rows, c) = 1
                  ELSE RowCount(rows, c) = 0
            /\ \A r \in DOMAIN rows :
                  LET m == {x \in bhc : /\ x.budgets_users_user_id = u
                                        /\ x.budgets_budget_id = b
                                        /\ x.categories_category_id = r.category_id}
                  IN  IF m = {}
                      THEN /\ Cents(r.planned_amount_credit) = 0
                           /\ Cents(r.planned_amount_debit) = 0
                           /\ Cents(r.current_amount) = 0
                      ELSE \E x \in m :
                           /\ Cents(r.planned_amount_credit) = x.planned_amount_credit
                           /\ Cents(r.planned_amount_debit) = x.planned_amount_debit
                           /\ Cents(r.current_amount) = x.current_amount

\* A listing that holds a category with a row in the budget and one without,
\* while a row of another budget exists.
C5_Witness ==
    /\ catResp.op = "getAllCategoriesForBudget"
    /\ \E r \in DOMAIN catResp.rows : Cents(r.planned_amount_credit) = 12345
    /\ \E r \in DOMAIN catResp.rows : r.budgets_budget_id = NULL
    /\ \E x \in bhc : x.budgets_budget_id # catResp.budgetId

\* A listing that leaves out an inactive category of the user and a category
\* of the other user, both linked to the budget.
C5_WitnessLeftOut ==
    /\ catResp.op = "getAllCategoriesForBudget"
    /\ catResp.rows = <<>>
    /\ \E c \in DOMAIN categories :
         /\ categories[c].users_user_id = catResp.userId
         /\ categories[c].status = INACTIVE
         /\ BudgetRows(catResp.userId, catResp.budgetId) # {}
    /\ \E c \in DOMAIN categories : categories[c].users_user_id # catResp.userId

(***************************************************************************)
(* deleteCategory: prisma.$transaction([deleteBudgetHasCategoriesRefs,     *)
(* deleteCat]).  The statements run in order inside one database           *)
(* transaction; their effects are held in tx until the transaction         *)
(* commits, and dropped when a statement fails.                            *)
(***************************************************************************)
deleteResp(userId, categoryId, ok) ==
    [op |-> "deleteCategory", userId |-> userId, categoryId |-> categoryId, ok |-> ok]

\* A plausible slip: the statements are awaited one after the other outside
\* a transaction, so the first takes effect at once.
deleteRefsAutocommit(userId, categoryId) ==
    /\ tx.pc = "idle"
    /\ tx' = [pc |-> "refsDeleted", userId |-> userId, categoryId |-> categoryId]
    /\ bhc' = bhc \ RefsOf(bhc, userId, categoryId)
    /\ catResp' = catNone
    /\ UNCHANGED <<categories, nextCategoryId>>
    /\ CatFrame

\* BudgetHasCategories.deleteMany({where: {categories_category_id, budgets_users_user_id}})
deleteBudgetHasCategoriesRefs(userId, categoryId) ==
    /\ tx.pc = "idle"
    /\ tx' = [pc |-> "refsDeleted", userId |-> userId, categoryId |-> categoryId]
    /\ catResp' = catNone
    /\ UNCHANGED <<categories, nextCategoryId, bhc>>
    /\ CatFrame

\* categories.delete({where: {users_user_id, category_id}}): the row is
\* marked for deletion.
deleteCat ==
    /\ tx.pc = "refsDeleted"
    /\ CategoryRowExists(categories, tx.userId, tx.categoryId)
    /\ tx' = [tx EXCEPT !.pc = "catDeleted"]
    /\ UNCHANGED <<categories, nextCategoryId, bhc, catResp>>
    /\ CatFrame

\* categories.delete finds no row to delete and throws: the transaction is
\* rolled back and deleteCategory fails.
deleteCatNotFound ==
    /\ tx.pc = "refsDeleted"
    /\ ~CategoryRowExists(categories, tx.userId, tx.categoryId)
    /\ tx' = [pc |-> "idle"]
    /\ catResp' = deleteResp(tx.userId, tx.categoryId, FALSE)
    /\ UNCHANGED <<categories, nextCategoryId, bhc>>
    /\ CatFrame

\* The database rejects a statement or the commit (a constraint, a lost
\* connection): the transaction is rolled back and deleteCategory fails.
deleteCategoryRollback ==
    /\ tx.pc \in {"refsDeleted", "catDeleted"}
    /\ tx' = [pc |-> "idle"]
    /\ catResp' = deleteResp(tx.userId, tx.categoryId, FALSE)
    /\ UNCHANGED <<categories, nextCategoryId, bhc>>
    /\ CatFrame

\* The transaction commits: both deletions take effect together.
deleteCategoryCommit ==
    /\ tx.pc = "catDeleted"
    /\ bhc' = bhc \ RefsOf(bhc, tx.userId, tx.categoryId)
    /\ categories' = [c \in DOMAIN categories \ {tx.categoryId} |-> categories[c]]
    /\ tx' = [pc |-> "idle"]
    /\ catResp' = deleteResp(tx.userId, tx.categoryId, TRUE)
    /\ UNCHANGED nextCategoryId
    /\ CatFrame

DeleteCategoryBegin ==
    \E u \in CatUserIds, c \in CategoryIds : deleteBudgetHasCategoriesRefs(u, c)

CreateCategoryOfUser == \E u \in CatUserIds : createCategory(u, ACTIVE)

LinkBudgetCategory ==
    \E u \in CatUserIds, b \in BudgetIds, c \in CategoryIds :
        addBudgetCategory(u, b, c, <<0, 0, 0>>)

NextDel ==
    \/ CreateCategoryOfUser
    \/ LinkBudgetCategory
    \/ DeleteCategoryBegin
    \/ deleteCat
    \/ deleteCatNotFound
    \/ deleteCategoryRollback
    \/ deleteCategoryCommit

SpecDel == Init /\ [][NextDel]_vars

\* C6: deleteCategory(userId, categoryId) is atomic: either the category row
\* and all budgets_has_categories rows referencing (categoryId, userId) are
\* deleted, or neither the category nor any of those rows is; the table
\* state never shows one deletion without the other, whether the call
\* returns or fails.
C6_DeleteCategoryAtomic ==
    [][/\ \A u \in CatUserIds, c \in CategoryIds :
            LET refsDeleted == RefsOf(bhc, u, c) \ RefsOf(bhc', u, c) # {}
                catDeleted == /\ CategoryRowExists(categories, u, c)
                              /\ ~CategoryRowExists(categories', u, c)
            IN  (refsDeleted \/ catDeleted) =>
                    /\ catDeleted
                    /\ RefsOf(bhc', u, c) = {}
                    /\ catResp' = deleteResp(u, c, TRUE)
       /\ (catResp'.op = "deleteCategory" /\ tx.pc # "idle") =>
            IF catResp'.ok
            THEN /\ ~CategoryRowExists(categories', tx.userId, tx.categoryId)
                 /\ RefsOf(bhc', tx.userId, tx.categoryId) = {}
            ELSE categories' = categories /\ bhc' = bhc
    ]_vars

\* A deleteCategory call failed while the category and two rows referencing
\* it exist: all of them are still there.
C6_Witness ==
    /\ catResp.op = "deleteCategory" /\ ~catResp.ok
    /\ CategoryRowExists(categories, catResp.userId, catResp.categoryId)
    /\ Cardinality(RefsOf(bhc, catResp.userId, catResp.categoryId)) = 2

\* A deleteCategory call returned after removing a category that had rows
\* referencing it.
C6_WitnessDeleted ==
    /\ catResp.op = "deleteCategory" /\ catResp.ok
    /\ catResp.categoryId \notin DOMAIN categories
    /\ Cardinality(bhc) < MaxRefs

(***************************************************************************)
(* Dates.  new Date(year, monthIndex, day) is local midnight of that day   *)
(* (the model's local time zone is UTC); getUnixTimestampFromDate gives    *)
(* its seconds since 1970-01-01.                                           *)
(***************************************************************************)
IsLeapYear(y) == (y % 4 = 0 /\ y % 100 # 0) \/ y % 400 = 0

DaysInMonth(y, m) ==
    IF m = 2 THEN (IF IsLeapYear(y) THEN 29 ELSE 28)
    ELSE IF m \in {4, 6, 9, 11} THEN 30 ELSE 31

LeapDaysBefore(y) == (y - 1) \div 4 - (y - 1) \div 100 + (y - 1) \div 400

DaysBeforeYear(y) == 365 * (y - 1970) + LeapDaysBefore(y) - LeapDaysBefore(1970)

RECURSIVE DaysBeforeMonth(_, _)
DaysBeforeMonth(y, m) == IF m = 1 THEN 0 ELSE DaysBeforeMonth(y, m - 1) + DaysInMonth(y, m - 1)

\* getUnixTimestampFromDate(new Date(y, monthIndex, d))
getUnixTimestampFromDate(y, monthIndex, d) ==
    (DaysBeforeYear(y) + DaysBeforeMonth(y, monthIndex + 1) + (d - 1)) * 86400

(***************************************************************************)
(* categoryService: amount aggregation                                     *)
(***************************************************************************)
Chars(n) == <<"0", "1", "2", "3", "4", "5", "6", "7", "8", "9">>[n + 1]

\* `${acc}`: the decimal digits of an account id
RECURSIVE DecimalString(_)
DecimalString(n) == IF n < 10 THEN <<Chars(n)>> ELSE DecimalString(n \div 10) \o <<Chars(n % 10)>>

\* The strings of the source, as sequences of characters.
RECURSIVE buildSqlLoop(_, _)
buildSqlLoop(excludedAccs, cnt) ==
    IF cnt > Len(excludedAccs) THEN <<>>
    ELSE <<" ", "'">> \o DecimalString(excludedAccs[cnt].account_id) \o <<"'", " ">>
         \o (IF cnt # Len(excludedAccs) THEN <<",", " ">> ELSE <<>>)
         \o buildSqlLoop(excludedAccs, cnt + 1)

buildSqlForExcludedAccountsList(excludedAccs) ==
    IF Len(excludedAccs) = 0 THEN <<" ", "-", "1", " ">>
    ELSE buildSqlLoop(excludedAccs, 1)

\* accounts.findMany({where: {exclude_from_budgets: true}}), in id order
RECURSIVE RowsInIdOrder(_)
RowsInIdOrder(ids) ==
    IF ids = {} THEN <<>>
    ELSE LET least == CHOOSE a \in ids : \A b \in ids : a <= b
         IN  <<accounts[least]>> \o RowsInIdOrder(ids \ {least})

listOfAccountsToExclude ==
    RowsInIdOrder({a \in AccountIds : accounts[a].exclude_from_budgets})

DigitValue(ch) == CHOOSE d \in 0 .. 9 : Chars(d) = ch

IsDigit(ch) == \E d \in 0 .. 9 : Chars(d) = ch

RECURSIVE LeadingDigits(_, _)
LeadingDigits(str, acc) ==
    IF str # <<>> /\ IsDigit(Head(str))
    THEN LeadingDigits(Tail(str), acc * 10 + DigitValue(Head(str)))
    ELSE acc

RECURSIVE SkipSpaces(_)
SkipSpaces(str) == IF str # <<>> /\ Head(str) = " " THEN SkipSpaces(Tail(str)) ELSE str

\* The number MySQL compares a string with when the other operand is an
\* integer column: leading spaces are skipped, then an optional sign and the
\* longest prefix of digits are read; a string with no such prefix is 0.
MySqlStringToNumber(str) ==
    LET t == SkipSpaces(str)
    IN  IF t # <<>> /\ Head(t) = "-" THEN 0 - LeadingDigits(Tail(t), 0)
        ELSE LeadingDigits(t, 0)

\* column NOT IN (${param}) in a $queryRaw tagged template: the interpolated
\* value is bound as ONE string parameter of the prepared statement.  NULL
\* NOT IN (...) is NULL, which if() takes as false.
NotInBoundList(column, param) ==
    column # NULL /\ coalesce(column, 0) # MySqlStringToNumber(param)

\* sum(if(cond, amount, 0)) over the selected rows: NULL when there is none.
RECURSIVE SumAmounts(_)
SumAmounts(rows) ==
    IF rows = {} THEN 0
    ELSE LET r == CHOOSE x \in rows : TRUE
         IN  r.amount + SumAmounts(rows \ {r})

SqlSumIf(rows, selected) ==
    IF rows = {} THEN NULL ELSE NotNull(SumAmounts(selected))

\* WHERE date_timestamp between fromDate AND toDate AND categories_category_id = categoryId
RowsInPeriod(categoryId, fromDate, toDate) ==
    {r \in transactions : /\ fromDate <= r.date_timestamp
                          /\ r.date_timestamp <= toDate
                          /\ r.categories_category_id = categoryId}

getAmountForCategoryInPeriod(categoryId, fromDate, toDate, includeTransfers) ==
    LET accountsToExcludeListInSQL == buildSqlForExcludedAccountsList(listOfAccountsToExclude)
        rows == RowsInPeriod(categoryId, fromDate, toDate)
        credit == {r \in rows :
                     \/ r.type = "I"
                     \/ /\ r.type = "T"
                        /\ NotInBoundList(r.accounts_account_to_id, accountsToExcludeListInSQL)}
        debit == {r \in rows :
                    \/ r.type = "E"
                    \/ /\ r.type = "T"
                       /\ NotInBoundList(r.accounts_account_from_id, accountsToExcludeListInSQL)}
        income == {r \in rows : r.type = "I"}
        expense == {r \in rows : r.type = "E"}
    IN  IF includeTransfers
        THEN [category_balance_credit |-> SqlSumIf(rows, credit),
              category_balance_debit |-> SqlSumIf(rows, debit)]
        ELSE [category_balance_credit |-> SqlSumIf(rows, income),
              category_balance_debit |-> SqlSumIf(rows, expense)]

getAmountForCategoryInMonth(categoryId, month, year, includeTransfers) ==
    LET nextMonth == IF month < 12 THEN month + 1 ELSE 1
        nextMonthsYear == IF month < 12 THEN year ELSE year + 1
        maxDate == getUnixTimestampFromDate(nextMonthsYear, nextMonth - 1, 1)
        minDate == getUnixTimestampFromDate(year, month - 1, 1)
    IN  getAmountForCategoryInPeriod(categoryId, minDate, maxDate, includeTransfers)

getAmountForCategoryInYear(categoryId, year, includeTransfers) ==
    LET maxDate == getUnixTimestampFromDate(year, 11, 31)
        minDate == getUnixTimestampFromDate(year, 0, 1)
    IN  getAmountForCategoryInPeriod(categoryId, minDate, maxDate, includeTransfers)

\* Inputs of the aggregation model.
Years == {2024}
TheYear == CHOOSE y \in Years : TRUE

AggCategoryIds == {1, 2}
AggAccountIds == {1, 2}
Amounts == {1000, 2550}

\* mid June, 1 July 00:00 (a month boundary), 31 December noon, 1 January
\* noon of the next year
Timestamps ==
    {getUnixTimestampFromDate(TheYear, 5, 15) + 43200,
     getUnixTimestampFromDate(TheYear, 6, 1),
     getUnixTimestampFromDate(TheYear, 11, 31) + 43200,
     getUnixTimestampFromDate(TheYear + 1, 0, 1) + 43200}

\* the first half of the year, and its second half up to 1 January noon
Windows ==
    {<<getUnixTimestampFromDate(TheYear, 0, 1), getUnixTimestampFromDate(TheYear, 6, 1) - 1>>,
     <<getUnixTimestampFromDate(TheYear, 6, 1),
       getUnixTimestampFromDate(TheYear + 1, 0, 1) + 43200>>}

\* type, accounts_account_from_id, accounts_account_to_id of a new row:
\* an income into account 1, an expense from it, a transfer from 1 to 2
Movements ==
    {<<"I", NULL, NotNull(1)>>, <<"E", NotNull(1), NULL>>,
     <<"T", NotNull(1), NotNull(2)>>}

\* What every call on the transactions and accounts tables leaves alone.
AggFrame == UNCHANGED <<userVars, catVars>>

\* transactionService adds a row.
createTransaction(movement, amount, timestamp, categoryId) ==
    /\ Cardinality(transactions) < MaxTransactions
    /\ transactions' = transactions \cup
         {[transaction_id |-> Cardinality(transactions) + 1,
           type |-> movement[1],
           accounts_account_from_id |-> movement[2],
           accounts_account_to_id |-> movement[3],
           amount |-> amount,
           date_timestamp |-> timestamp,
           categories_category_id |-> categoryId]}
    /\ aggResp' = [op |-> "none"]
    /\ UNCHANGED accounts
    /\ AggFrame

\* accountService flags or unflags an account.
setExcludeFromBudgets(accountId, flag) ==
    /\ accounts[accountId].exclude_from_budgets # flag
    /\ accounts' = [accounts EXCEPT ![accountId].exclude_from_budgets = flag]
    /\ aggResp' = [op |-> "none"]
    /\ UNCHANGED transactions
    /\ AggFrame

CreateTransaction ==
    \E m \in Movements, a \in Amounts, t \in Timestamps, c \in AggCategoryIds :
        createTransaction(m, a, t, c)

SetExcludeFromBudgets ==
    \E a \in AggAccountIds, f \in BOOLEAN : setExcludeFromBudgets(a, f)

GetAmountForCategoryInPeriod ==
    \E c \in AggCategoryIds, w \in Windows, i \in BOOLEAN :
        /\ aggResp' = [op |-> "getAmountForCategoryInPeriod", categoryId |-> c,
                       fromDate |-> w[1], toDate |-> w[2], includeTransfers |-> i,
                       amounts |-> getAmountForCategoryInPeriod(c, w[1], w[2], i)]
        /\ UNCHANGED <<transactions, accounts>>
        /\ AggFrame

GetAmountForCategoryInMonth ==
    \E c \in AggCategoryIds, m \in {6, 12}, i \in BOOLEAN :
        /\ aggResp' = [op |-> "getAmountForCategoryInMonth", categoryId |-> c,
                       month |-> m, year |-> TheYear, includeTransfers |-> i,
                       amounts |-> getAmountForCategoryInMonth(c, m, TheYear, i)]
        /\ UNCHANGED <<transactions, accounts>>
        /\ AggFrame

GetAmountForCategoryInYear ==
    \E c \in AggCategoryIds, i \in BOOLEAN :
        /\ aggResp' = [op |-> "getAmountForCategoryInYear", categoryId |-> c,
                       year |-> TheYear, includeTransfers |-> i,
                       amounts |-> getAmountForCategoryInYear(c, TheYear, i)]
        /\ UNCHANGED <<transactions, accounts>>
        /\ AggFrame

NextAgg ==
    \/ CreateTransaction
    \/ SetExcludeFromBudgets
    \/ GetAmountForCategoryInPeriod
    \/ GetAmountForCategoryInMonth
    \/ GetAmountForCategoryInYear

SpecAgg == Init /\ [][NextAgg]_vars

(***************************************************************************)
(* Claims about the aggregation.                                           *)
(***************************************************************************)
Flagged(account) ==
    account # NULL /\ accounts[coalesce(account, 0)].exclude_from_budgets

\* The sums the documentation of the aggregation describes.
ExpectedCredit(rows, includeTransfers) ==
    SumAmounts({r \in rows :
        \/ r.type = "I"
        \/ includeTransfers /\ r.type = "T" /\ ~Flagged(r.accounts_account_to_id)})

ExpectedDebit(rows, includeTransfers) ==
    SumAmounts({r \in rows :
        \/ r.type = "E"
        \/ includeTransfers /\ r.type = "T" /\ ~Flagged(r.accounts_account_from_id)})

\* C4: getAmountForCategoryInPeriod returns credit = the sum of the
\* category's in-window amounts of type 'I', plus with includeTransfers those
\* of type 'T' whose destination account is not flagged exclude_from_budgets,
\* and debit = the sum of type 'E', plus with includeTransfers those of type
\* 'T' whose source account is not flagged.  (A NULL sum is read as 0.)
C4_PeriodSumsExcludeFlaggedAccounts ==
    aggResp.op = "getAmountForCategoryInPeriod" =>
        LET rows == {r \in transactions :
                        /\ r.categories_category_id = aggResp.categoryId
                        /\ aggResp.fromDate <= r.date_timestamp
                        /\ r.date_timestamp <= aggResp.toDate}
        IN  /\ coalesce(aggResp.amounts.category_balance_credit, 0)
                 = ExpectedCredit(rows, aggResp.includeTransfers)
            /\ coalesce(aggResp.amounts.category_balance_debit, 0)
                 = ExpectedDebit(rows, aggResp.includeTransfers)

\* What the query does: with includeTransfers every in-window transfer is
\* counted on both sides, whatever accounts are flagged.
PeriodSumsCountEveryTransfer ==
    aggResp.op = "getAmountForCategoryInPeriod" =>
        LET rows == RowsInPeriod(aggResp.categoryId, aggResp.fromDate, aggResp.toDate)
            i == aggResp.includeTransfers
        IN  /\ coalesce(aggResp.amounts.category_balance_credit, 0)
                 = SumAmounts({r \in rows : r.type = "I" \/ (i /\ r.type = "T")})
            /\ coalesce(aggResp.amounts.category_balance_debit, 0)
                 = SumAmounts({r \in rows : r.type = "E" \/ (i /\ r.type = "T")})

MonthBoundaries(year) ==
    {getUnixTimestampFromDate(year, m, 1) : m \in 0 .. 11}
        \cup {getUnixTimestampFromDate(year + 1, 0, 1)}

RECURSIVE SumOfMonths(_, _, _, _, _)
SumOfMonths(categoryId, year, includeTransfers, field, month) ==
    IF month = 0 THEN 0
    ELSE coalesce(getAmountForCategoryInMonth(categoryId, month, year, includeTransfers)[field], 0)
         + SumOfMonths(categoryId, year, includeTransfers, field, month - 1)

\* C7: getAmountForCategoryInYear counts every transaction of the category
\* in the calendar year, 1 January 00:00 through the end of 31 December, and
\* none outside it: when no transaction falls on a month boundary its credit
\* and debit are the sums of the twelve getAmountForCategoryInMonth results.
C7_YearIsSumOfItsMonths ==
    (/\ aggResp.op = "getAmountForCategoryInYear"
     /\ \A r \in transactions : r.date_timestamp \notin MonthBoundaries(aggResp.year)) =>
        /\ coalesce(aggResp.amounts.category_balance_credit, 0)
             = SumOfMonths(aggResp.categoryId, aggResp.year, aggResp.includeTransfers,
                           "category_balance_credit", 12)
        /\ coalesce(aggResp.amounts.category_balance_debit, 0)
             = SumOfMonths(aggResp.categoryId, aggResp.year, aggResp.includeTransfers,
                           "category_balance_debit", 12)

\* What the query does: a transaction after 31 December 00:00 is not counted.
YearStopsAtLastDayMidnight ==
    aggResp.op = "getAmountForCategoryInYear" =>
        LET rows == {r \in transactions :
                        /\ r.categories_category_id = aggResp.categoryId
                        /\ getUnixTimestampFromDate(aggResp.year, 0, 1) <= r.date_timestamp
                        /\ r.date_timestamp <= getUnixTimestampFromDate(aggResp.year, 11, 31)}
            i == aggResp.includeTransfers
        IN  coalesce(aggResp.amounts.category_balance_credit, 0)
              = SumAmounts({r \in rows : r.type = "I" \/ (i /\ r.type = "T")})

Next == NextUser \/ NextCat \/ NextDel \/ NextAgg

Spec == Init /\ [][Next]_vars

====
